---- MODULE Spec2Model ----
(***************************************************************************)
(* NETA (Next.js Exhaustive Testing Agent): the project analyzer           *)
(* (ProjectAnalyzer), the orchestrator of a generate run and the test      *)
(* generators, as a state machine.                                         *)
(*                                                                         *)
(* Strings are TLA+ strings; paths are POSIX relative paths as glob        *)
(* returns them ("app/dashboard/page.tsx").  A file's content is the       *)
(* sequence of its top-level source items; SourceText renders the raw      *)
(* text the analyzer reads, createSourceFile the syntax tree the           *)
(* TypeScript parser builds from it.                                       *)
(***************************************************************************)
EXTENDS Naturals, Sequences, FiniteSets, TLC

VARIABLES
  appEntry,      \* what <root>/app is on disk: "absent", "file" or "dir"
  files,         \* the project's source files: path -> [content, readable]
  written,       \* the files under tests/: path -> number of writes in this run
  options,       \* OrchestratorOptions and the LLM provider
  pc,            \* position of the running call
  allFiles,      \* scanComponents: the combined glob result
  idx,           \* scanComponents: index of the next file of the loop
  results,       \* scanComponents: the records pushed so far
  analysis,      \* the AnalysisResult analyze returned last: <<>> or <<r>>
  prevAnalysis,  \* the AnalysisResult of the call before that one
  scans,         \* number of analyze calls started
  error,         \* the Error thrown by the running call: <<>> or <<message>>
  log,           \* the file-system, parser, generator and LLM operations performed
  targets,       \* Orchestrator.run: targetComponents
  ci,            \* Orchestrator.run: index of the component being processed
  fnIn,          \* argument of the function under check (function specifications);
                 \* for the check command, what it finds on disk and from vitest
  fnOut          \* its result: <<>> before the call, <<value>> after; for the check
                 \* command, what its calls returned and the status of the process

vars == <<appEntry, files, written, options, pc, allFiles, idx, results, analysis,
          prevAnalysis, scans, error, log, targets, ci, fnIn, fnOut>>

(***************************************************************************)
(* Bounds of the model.                                                    *)
(***************************************************************************)
MaxFiles == 2      \* files of a project tree
MaxScans == 2      \* analyze calls on one tree
MaxDepth == 2      \* directories below the scanned root in a classified path
MaxItems == 2      \* top-level items of a parsed file

(***************************************************************************)
(* String.prototype and path functions.                                    *)
(***************************************************************************)
CharAt(s, i) == SubSeq(s, i, i)

Includes(s, sub) ==
  \E i \in 1..(Len(s) + 1 - Len(sub)) : SubSeq(s, i, i + Len(sub) - 1) = sub

StartsWith(s, prefix) ==
  Len(prefix) <= Len(s) /\ SubSeq(s, 1, Len(prefix)) = prefix

EndsWith(s, suffix) ==
  Len(suffix) <= Len(s) /\ SubSeq(s, Len(s) - Len(suffix) + 1, Len(s)) = suffix

\* 0 when ch does not occur (JavaScript's -1)
IndexOf(s, sub) ==
  IF Includes(s, sub)
  THEN CHOOSE i \in 1..(Len(s) + 1 - Len(sub)) :
         /\ SubSeq(s, i, i + Len(sub) - 1) = sub
         /\ \A j \in 1..(i - 1) : SubSeq(s, j, j + Len(sub) - 1) # sub
  ELSE 0

LastIndexOf(s, ch) ==
  IF \E i \in 1..Len(s) : CharAt(s, i) = ch
  THEN CHOOSE i \in 1..Len(s) :
         CharAt(s, i) = ch /\ \A j \in (i + 1)..Len(s) : CharAt(s, j) # ch
  ELSE 0

\* s.replace(pattern, replacement) with a string pattern: the first occurrence only
Replace(s, pattern, replacement) ==
  LET i == IndexOf(s, pattern)
  IN  IF i = 0 THEN s
      ELSE SubSeq(s, 1, i - 1) \o replacement \o SubSeq(s, i + Len(pattern), Len(s))

\* path.basename(p)
Basename(p) == SubSeq(p, LastIndexOf(p, "/") + 1, Len(p))

\* path.dirname(p) of a relative path
Dirname(p) ==
  LET i == LastIndexOf(p, "/") IN IF i = 0 THEN "." ELSE SubSeq(p, 1, i - 1)

\* path.extname(p): from the last "." of the base name, "" when there is none
\* or when it is the base name's first character
Extname(p) ==
  LET b == Basename(p)
      i == LastIndexOf(b, ".")
  IN  IF i <= 1 THEN "" ELSE SubSeq(b, i, Len(b))

\* path.basename(p, ext)
BasenameExt(p, ext) ==
  LET b == Basename(p)
  IN  IF ext # "" /\ b # ext /\ EndsWith(b, ext)
      THEN SubSeq(b, 1, Len(b) - Len(ext)) ELSE b

\* path.join(a, b) of two relative non-empty parts
Join(a, b) == a \o "/" \o b

RECURSIVE Segments(_)
\* the "/"-separated segments of a path
Segments(p) ==
  LET i == IndexOf(p, "/")
  IN  IF i = 0 THEN <<p>>
      ELSE <<SubSeq(p, 1, i - 1)>> \o Segments(SubSeq(p, i + 1, Len(p)))

(***************************************************************************)
(* The file system and glob.                                               *)
(***************************************************************************)
\* Every path a project tree of the model may hold, in the order a directory
\* traversal lists them.
PathUniverse ==
  << "lib/format.ts",
     "app/page.tsx",
     "app/page.ts",
     "app/dashboard/settings/page.tsx",
     "components/Button.tsx",
     "app/actions/useActions.ts",
     "app/node_modules/pkg/page.tsx",
     "app/mycomponents/Card.tsx" >>

\* fs.existsSync(<root>/app): true of any entry of that name
ExistsSyncApp(entry) == entry # "absent"

\* the files of the tree in traversal order
Listing(tree) == SelectSeq(PathUniverse, LAMBDA p : p \in DOMAIN tree)

\* "**" and "*" match no name that starts with a dot
NoDotSegment(p) ==
  \A i \in 1..Len(Segments(p)) : ~StartsWith(Segments(p)[i], ".")

\* ignore: 'node_modules/**', which reaches the root's node_modules only
IgnoredAtRootOnly(p) ==
  Len(Segments(p)) > 1 /\ Segments(p)[1] = "node_modules"

\* ignore: '**/node_modules/**'
Ignored(p) ==
  \E i \in 1..(Len(Segments(p)) - 1) : Segments(p)[i] = "node_modules"

\* glob('<dir>/**/*.{ts,tsx}', { ignore: '**/node_modules/**' })
GlobSources(tree, dir) ==
  SelectSeq(Listing(tree),
            LAMBDA p : /\ StartsWith(p, dir \o "/")
                       /\ Extname(p) \in {".ts", ".tsx"}
                       /\ NoDotSegment(p)
                       /\ ~Ignored(p))

\* glob('app/**/page.{ts,tsx}')
GlobPages(tree) ==
  SelectSeq(Listing(tree),
            LAMBDA p : /\ StartsWith(p, "app/")
                       /\ Basename(p) \in {"page.ts", "page.tsx"}
                       /\ NoDotSegment(p))

(***************************************************************************)
(* Source items and the syntax tree.                                       *)
(*                                                                         *)
(* An item is one top-level piece of a file's text.  The kinds that are    *)
(* syntax-tree nodes carry the TypeScript node kind; "Comment" is trivia   *)
(* and "Garbage" is text the parser cannot parse.                          *)
(***************************************************************************)
Item(kind, moduleSpecifier, name, modifiers, declarations, body, raw) ==
  [kind |-> kind, moduleSpecifier |-> moduleSpecifier, name |-> name,
   modifiers |-> modifiers, declarations |-> declarations, body |-> body,
   raw |-> raw]

\* import { X } from "<spec>";
ImportDeclaration(spec) == Item("ImportDeclaration", <<spec>>, "", {}, <<>>, <<>>, "")
\* export * from "<spec>";
ExportFrom(spec) == Item("ExportDeclaration", <<spec>>, "", {}, <<>>, <<>>, "")
\* export { local };
ExportNamed == Item("ExportDeclaration", <<>>, "", {}, <<>>, <<>>, "")
\* export default <expression>;
ExportAssignment == Item("ExportAssignment", <<>>, "", {}, <<>>, <<>>, "")
\* [export] [default] function <name>() { <body> }   (name "" when anonymous)
FunctionDeclaration(name, modifiers, body) ==
  Item("FunctionDeclaration", <<>>, name, modifiers, <<>>, body, "")
\* [export] [default] class <name> {}
ClassDeclaration(name, modifiers) ==
  Item("ClassDeclaration", <<>>, name, modifiers, <<>>, <<>>, "")
\* [export] const <d1>, <d2>;  a declaration is [name, isIdentifier]: a
\* destructuring pattern is a declaration whose name is no identifier
VariableStatement(modifiers, declarations) ==
  Item("VariableStatement", <<>>, "", modifiers, declarations, <<>>, "")
\* [export] namespace <name> { <body> }
ModuleDeclaration(name, modifiers, body) ==
  Item("ModuleDeclaration", <<>>, name, modifiers, <<>>, body, "")
\* <raw>;   an expression statement, e.g. the directive "use client";
ExpressionStatement(raw) == Item("ExpressionStatement", <<>>, "", {}, <<>>, <<>>, raw)
\* // <raw>
Comment(raw) == Item("Comment", <<>>, "", {}, <<>>, <<>>, raw)
\* text that is no TypeScript
Garbage(raw) == Item("Garbage", <<>>, "", {}, <<>>, <<>>, raw)

Ident(name) == [name |-> name, isIdentifier |-> TRUE]
Pattern(name) == [name |-> name, isIdentifier |-> FALSE]

RECURSIVE JoinText(_, _)
JoinText(texts, sep) ==
  IF texts = <<>> THEN ""
  ELSE IF Len(texts) = 1 THEN texts[1]
  ELSE texts[1] \o sep \o JoinText(Tail(texts), sep)

ModifierText(modifiers) ==
  (IF "export" \in modifiers THEN "export " ELSE "")
    \o (IF "default" \in modifiers THEN "default " ELSE "")

DeclarationText(d) == IF d.isIdentifier THEN d.name ELSE "{ " \o d.name \o " }"

RECURSIVE ItemText(_)
\* the raw text of one item
ItemText(n) ==
  LET bodyText == JoinText([i \in 1..Len(n.body) |-> ItemText(n.body[i])], " ")
  IN  CASE n.kind = "ImportDeclaration" ->
             "import x from \"" \o n.moduleSpecifier[1] \o "\";"
        [] n.kind = "ExportDeclaration" ->
             IF n.moduleSpecifier = <<>> THEN "export { local };"
             ELSE "export * from \"" \o n.moduleSpecifier[1] \o "\";"
        [] n.kind = "ExportAssignment" -> "export default local;"
        [] n.kind = "FunctionDeclaration" ->
             ModifierText(n.modifiers) \o "function " \o n.name \o "() { "
               \o bodyText \o " }"
        [] n.kind = "ClassDeclaration" ->
             ModifierText(n.modifiers) \o "class " \o n.name \o " {}"
        [] n.kind = "VariableStatement" ->
             ModifierText(n.modifiers) \o "const "
               \o JoinText([i \in 1..Len(n.declarations) |->
                              DeclarationText(n.declarations[i]) \o " = init"], ", ")
               \o ";"
        [] n.kind = "ModuleDeclaration" ->
             ModifierText(n.modifiers) \o "namespace " \o n.name \o " { "
               \o bodyText \o " }"
        [] n.kind = "ExpressionStatement" -> n.raw \o ";"
        [] n.kind = "Comment" -> "// " \o n.raw
        [] OTHER -> n.raw

\* fs.readFileSync(path, 'utf-8') of a readable file: its raw text
SourceText(content) ==
  JoinText([i \in 1..Len(content) |-> ItemText(content[i])], "\n")

\* ts.createSourceFile: never throws.  Comments are no nodes; text that does not
\* parse yields a parse diagnostic and no declaration node.
createSourceFile(content) ==
  [statements       |-> SelectSeq(content, LAMBDA n : n.kind \notin {"Comment", "Garbage"}),
   parseDiagnostics |-> Len(SelectSeq(content, LAMBDA n : n.kind = "Garbage"))]

HasExportKeyword(node) == "export" \in node.modifiers

\* the names a VariableStatement's declarationList.declarations.forEach pushes
DeclaredNames(node) ==
  LET ids == SelectSeq(node.declarations, LAMBDA d : d.isIdentifier)
  IN  [i \in 1..Len(ids) |-> ids[i].name]

\* visitNode without the ExportDeclaration branch (a re-export is no dependency)
visitNodeImportsOnly(node, acc) ==
  IF node.kind = "ImportDeclaration"
  THEN IF node.moduleSpecifier # <<>>
       THEN [acc EXCEPT !.dependencies = Append(@, node.moduleSpecifier[1])]
       ELSE acc
  ELSE IF node.kind = "ExportAssignment"
  THEN [acc EXCEPT !.exports = Append(@, "default")]
  ELSE IF /\ node.kind \in {"FunctionDeclaration", "ClassDeclaration", "VariableStatement"}
          /\ HasExportKeyword(node)
  THEN IF node.kind = "VariableStatement"
       THEN [acc EXCEPT !.exports = @ \o DeclaredNames(node)]
       ELSE IF node.name # ""
       THEN [acc EXCEPT !.exports = Append(@, node.name)]
       ELSE acc
  ELSE acc

\* the body of visit before ts.forEachChild: what one node adds to the arrays
visitNode(node, acc) ==
  IF node.kind = "ImportDeclaration"
  THEN IF node.moduleSpecifier # <<>>
       THEN [acc EXCEPT !.dependencies = Append(@, node.moduleSpecifier[1])]
       ELSE acc
  ELSE IF node.kind = "ExportDeclaration"
  THEN IF node.moduleSpecifier # <<>>
       THEN [acc EXCEPT !.dependencies = Append(@, node.moduleSpecifier[1])]
       ELSE acc
  ELSE IF node.kind = "ExportAssignment"
  THEN [acc EXCEPT !.exports = Append(@, "default")]
  ELSE IF /\ node.kind \in {"FunctionDeclaration", "ClassDeclaration", "VariableStatement"}
          /\ HasExportKeyword(node)
  THEN IF node.kind = "VariableStatement"
       THEN [acc EXCEPT !.exports = @ \o DeclaredNames(node)]
       ELSE IF node.name # ""
       THEN [acc EXCEPT !.exports = Append(@, node.name)]
       ELSE acc
  ELSE acc

RECURSIVE visit(_, _), forEachChild(_, _)
\* visit: the node itself, then every child (ts.forEachChild(node, visit))
visit(node, acc) == forEachChild(node.body, visitNode(node, acc))

forEachChild(children, acc) ==
  IF children = <<>> THEN acc
  ELSE forEachChild(Tail(children), visit(Head(children), acc))

\* ProjectAnalyzer.parseFile; the SourceFile node itself matches no branch
parseFile(filePath, content) ==
  forEachChild(createSourceFile(content).statements,
               [dependencies |-> <<>>, exports |-> <<>>])

\* ProjectAnalyzer.determineComponentType, on the raw text
determineComponentType(text) ==
  IF Includes(text, "\"use client\"") \/ Includes(text, "'use client'")
  THEN "client" ELSE "server"

\* determineFileType with the server-action rule tried before the hook rule
determineFileTypeActionsFirst(filePath) ==
  LET fileName == Basename(filePath)
  IN  IF StartsWith(fileName, "page.") THEN "page"
      ELSE IF StartsWith(fileName, "layout.") THEN "layout"
      ELSE IF StartsWith(fileName, "route.") THEN "route-handler"
      ELSE IF Includes(filePath, "components/") THEN "component"
      ELSE IF Includes(fileName, "actions") \/ Includes(filePath, "actions/")
      THEN "server-action"
      ELSE IF Includes(filePath, "hooks/") \/ StartsWith(fileName, "use") THEN "hook"
      ELSE IF Includes(filePath, "lib/") \/ Includes(filePath, "utils/") THEN "utility"
      ELSE "component"

\* ProjectAnalyzer.determineFileType
determineFileType(filePath) ==
  LET fileName == Basename(filePath)
  IN  IF StartsWith(fileName, "page.") THEN "page"
      ELSE IF StartsWith(fileName, "layout.") THEN "layout"
      ELSE IF StartsWith(fileName, "route.") THEN "route-handler"
      ELSE IF Includes(filePath, "components/") THEN "component"
      ELSE IF Includes(filePath, "hooks/") \/ StartsWith(fileName, "use") THEN "hook"
      ELSE IF Includes(filePath, "lib/") \/ Includes(filePath, "utils/") THEN "utility"
      ELSE IF Includes(fileName, "actions") \/ Includes(filePath, "actions/")
      THEN "server-action"
      ELSE "component"

\* ComponentInfo with the file's base name stored as its filePath
ComponentInfoBaseNamePath(file, content) ==
  LET parsed == parseFile(Join(".", file), content)
  IN  [filePath     |-> Basename(file),
       name         |-> BasenameExt(file, Extname(file)),
       type         |-> determineComponentType(SourceText(content)),
       fileType     |-> determineFileType(file),
       dependencies |-> parsed.dependencies,
       exports      |-> parsed.exports]

\* the ComponentInfo scanComponents pushes for one file
ComponentInfo(file, content) ==
  LET parsed == parseFile(Join(".", file), content)
  IN  [filePath     |-> file,
       name         |-> BasenameExt(file, Extname(file)),
       type         |-> determineComponentType(SourceText(content)),
       fileType     |-> determineFileType(file),
       dependencies |-> parsed.dependencies,
       exports      |-> parsed.exports]

\* RouteOf without "|| '/'"
RouteOfNoRoot(f) == Replace(Dirname(f), "app", "")

\* the route of one page file: scanRoutes' map callback
RouteOf(f) ==
  LET dir == Dirname(f)
      r   == Replace(dir, "app", "")
  IN  IF r = "" THEN "/" ELSE r

\* ProjectAnalyzer.scanRoutes
scanRoutes(tree) ==
  LET pages == GlobPages(tree) IN [i \in 1..Len(pages) |-> RouteOf(pages[i])]

(***************************************************************************)
(* ProjectAnalyzer.analyze, step by step.                                  *)
(***************************************************************************)
Event(op, arg) == [op |-> op, arg |-> arg]

\* fs.readFileSync throws on a file the process may not read
CanRead(tree, file) == file \in DOMAIN tree /\ tree[file].readable

\* results kept in a field of the analyzer instead of a local
KeptResults(old) == old

\* const results: ComponentInfo[] = []  (a local of every scanComponents call)
NewResults(old) == <<>>

\* the three listings concatenated with lib first
CombineFilesLibFirst(appFiles, componentFiles, libFiles) ==
  libFiles \o appFiles \o componentFiles

\* const allFiles = [...appFiles, ...componentFiles, ...libFiles]
CombineFiles(appFiles, componentFiles, libFiles) ==
  appFiles \o componentFiles \o libFiles

\* fs.readFileSync removing the file it read
FilesAfterReadRemoved(tree, file) ==
  [p \in DOMAIN tree \ {file} |-> tree[p]]

\* fs.readFileSync(file, 'utf-8') leaves the tree as it found it
FilesAfterRead(tree, file) == tree

\* a call of analyzer.analyze() begins
BeginAnalyze ==
  /\ scans' = scans + 1
  /\ prevAnalysis' = analysis
  /\ analysis' = <<>>
  /\ error' = <<>>
  /\ pc' = "analyze"

\* analyze, lines 15-20: the App Router check
Analyze ==
  /\ pc = "analyze"
  /\ IF ~ExistsSyncApp(appEntry)
     THEN /\ error' = <<"Only Next.js App Router projects are supported.">>
          /\ pc' = "threw"
     ELSE /\ error' = error
          /\ pc' = "scanComponents"
  /\ UNCHANGED <<appEntry, files, written, options, allFiles, idx, results, analysis,
                 prevAnalysis, scans, log, targets, ci, fnIn, fnOut>>

\* scanComponents, lines 35-49: the three globs
ScanComponentsGlob ==
  /\ pc = "scanComponents"
  /\ allFiles' = CombineFiles(GlobSources(files, "app"),
                            GlobSources(files, "components"),
                            GlobSources(files, "lib"))
  /\ results' = NewResults(results)
  /\ idx' = 1
  /\ log' = log \o << Event("glob", "app/**/*.{ts,tsx}"),
                      Event("glob", "components/**/*.{ts,tsx}"),
                      Event("glob", "lib/**/*.{ts,tsx}") >>
  /\ pc' = "scanLoop"
  /\ UNCHANGED <<appEntry, files, written, options, analysis, prevAnalysis, scans,
                 error, targets, ci, fnIn, fnOut>>

\* scanComponents, lines 51-65: one iteration of the loop.  readFileSync is not
\* guarded: its exception leaves scanComponents and analyze.
ScanComponentsFile ==
  /\ pc = "scanLoop"
  /\ idx <= Len(allFiles)
  /\ LET file == allFiles[idx]
     IN  /\ IF ~CanRead(files, file)
            THEN /\ error' = <<"EACCES: permission denied, open " \o file>>
                 /\ log' = Append(log, Event("read", file))
                 /\ pc' = "threw"
                 /\ UNCHANGED <<results, idx>>
            ELSE /\ results' = Append(results, ComponentInfo(file, files[file].content))
                 /\ log' = log \o <<Event("read", file), Event("parse", file)>>
                 /\ idx' = idx + 1
                 /\ UNCHANGED <<error, pc>>
         /\ files' = FilesAfterRead(files, file)
  /\ UNCHANGED <<appEntry, written, options, allFiles, analysis, prevAnalysis,
                 scans, targets, ci, fnIn, fnOut>>

\* scanComponents returns (line 67); analyze, lines 23-30: scanRoutes and the result
AnalyzeReturn ==
  /\ pc = "scanLoop"
  /\ idx > Len(allFiles)
  /\ analysis' = << [nextJsRoot  |-> ".",
                     isAppRouter |-> ExistsSyncApp(appEntry),
                     components  |-> results,
                     routes      |-> scanRoutes(files)] >>
  /\ log' = Append(log, Event("glob", "app/**/page.{ts,tsx}"))
  /\ pc' = "analyzed"
  /\ UNCHANGED <<appEntry, files, written, options, allFiles, idx, results,
                 prevAnalysis, scans, error, targets, ci, fnIn, fnOut>>

(***************************************************************************)
(* SpecScan: analyze called up to MaxScans times on one project tree.      *)
(***************************************************************************)
PathSet == {PathUniverse[i] : i \in 1..Len(PathUniverse)}

\* the contents a file of a scanned tree may have
ScanContents ==
  { << ExpressionStatement("\"use client\""),
       FunctionDeclaration("Page", {"export", "default"}, <<>>) >>,
    << ImportDeclaration("./bar"), FunctionDeclaration("Baz", {"export"}, <<>>) >>,
    << Garbage("<<<<<<< HEAD") >> }

ScanFileData ==
  {[content |-> c, readable |-> TRUE] : c \in ScanContents}
    \cup {[content |-> <<>>, readable |-> FALSE]}

\* the project trees: at most MaxFiles files; files below app/ only when app is
\* a directory
Trees(entry, fileData) ==
  UNION { [S -> fileData] :
            S \in { T \in SUBSET PathSet :
                      /\ Cardinality(T) <= MaxFiles
                      /\ entry # "dir" => \A p \in T : ~StartsWith(p, "app/") } }

NoOptions ==
  [mode |-> "all", file |-> <<>>, e2e |-> FALSE, dryRun |-> FALSE, provider |-> "local"]

InitScan ==
  /\ appEntry \in {"absent", "file", "dir"}
  /\ files \in Trees(appEntry, ScanFileData)
  /\ written = <<>>
  /\ options = NoOptions
  /\ pc = "idle"
  /\ allFiles = <<>>
  /\ idx = 0
  /\ results = <<>>
  /\ analysis = <<>>
  /\ prevAnalysis = <<>>
  /\ scans = 0
  /\ error = <<>>
  /\ log = <<>>
  /\ targets = <<>>
  /\ ci = 0
  /\ fnIn = <<>>
  /\ fnOut = <<>>

\* a caller calls analyze(): the first time, or again after the call before ended
CallAnalyze ==
  /\ pc \in {"idle", "analyzed", "threw"}
  /\ scans < MaxScans
  /\ BeginAnalyze
  /\ UNCHANGED <<appEntry, files, written, options, allFiles, idx, results, log,
                 targets, ci, fnIn, fnOut>>

NextScan ==
  \/ CallAnalyze
  \/ Analyze
  \/ ScanComponentsGlob
  \/ ScanComponentsFile
  \/ AnalyzeReturn

SpecScan == InitScan /\ [][NextScan]_vars

(***************************************************************************)
(* The generate command, Orchestrator.run and the three generators.        *)
(***************************************************************************)
\* written after one more write of path by the generator run for component
WriteFile(w, path, component) ==
  IF path \in DOMAIN w
  THEN [w EXCEPT ![path] = Append(@, component)]
  ELSE [q \in DOMAIN w \cup {path} |-> IF q = path THEN <<component>> ELSE w[q]]

\* what LLMClient.generate can do: LocalClient returns the model's text or its
\* stub, CloudClient returns the text or rethrows the API error
LLMOutcomes(provider) ==
  IF provider = "local" THEN {"text"} ELSE {"text", "throw"}

\* the unit test placed beside the component it tests
UnitTestPathBesideSource(component) ==
  Dirname(component.filePath) \o "/" \o component.name \o ".test.tsx"

\* path.join(rootDir, 'tests', 'unit', `${component.name}.test.tsx`)
UnitTestPath(component) == "tests/unit/" \o component.name \o ".test.tsx"
IntegrationTestPath(component) ==
  "tests/integration/" \o component.name \o ".integration.test.tsx"
E2ETestPath(component) == "tests/e2e/" \o component.name \o ".spec.ts"

\* generate command, lines 41-55: --file with the default mode switches to file
\* mode; the orchestrator is built and run() calls analyzer.analyze()
GenerateCommand ==
  /\ pc = "cli"
  /\ options' = IF options.file # <<>> /\ options.mode = "changed"
                THEN [options EXCEPT !.mode = "file"] ELSE options
  /\ BeginAnalyze
  /\ UNCHANGED <<appEntry, files, written, allFiles, idx, results, log, targets, ci,
                 fnIn, fnOut>>

\* file mode that keeps every component
FilterTargetsKeepsAll(components, opts) == components

\* the targets taken last to first
FilterTargetsReversed(components, opts) ==
  LET kept == IF opts.mode = "file" /\ opts.file # <<>>
              THEN SelectSeq(components, LAMBDA c : Includes(c.filePath, opts.file[1]))
              ELSE components
  IN  [i \in 1..Len(kept) |-> kept[Len(kept) + 1 - i]]

\* Orchestrator.run, line 43: the components file mode keeps
FilterTargets(components, opts) ==
  IF opts.mode = "file" /\ opts.file # <<>>
  THEN SelectSeq(components, LAMBDA c : Includes(c.filePath, opts.file[1]))
  ELSE components

\* Orchestrator.run, lines 37-52: the target components; no target ends the run
RunFilter ==
  /\ pc = "analyzed"
  /\ targets' = FilterTargets(analysis[1].components, options)
  /\ IF targets' = <<>>
     THEN pc' = "done" /\ ci' = ci
     ELSE pc' = "unit" /\ ci' = 1
  /\ UNCHANGED <<appEntry, files, written, options, allFiles, idx, results, analysis,
                 prevAnalysis, scans, error, log, fnIn, fnOut>>

\* the position after the last generator of the current component
NextComponent == IF ci < Len(targets) THEN "unit" ELSE "done"

\* a generator that writes whatever the options say
ShouldWriteAlways(opts) == TRUE

\* if (!options.dryRun): the guard of the generate, mkdir and write of a generator
ShouldWrite(opts) == ~opts.dryRun

\* an E2E generator without its role check
E2EAppliesAlways(component) == TRUE

\* E2EGenerator.generate returns at once unless component.fileType is 'page'
E2EApplies(component) == component.fileType = "page"

\* the part "if (!options.dryRun) { generate; mkdir; write }" the generators share
GenerateAndWrite(op, component, testPath, next) ==
  IF ~ShouldWrite(options)
  THEN /\ log' = log \o <<Event(op, component.filePath), Event("read", component.filePath)>>
       /\ pc' = next
       /\ UNCHANGED <<written, error>>
  ELSE \E outcome \in LLMOutcomes(options.provider) :
         IF outcome = "throw"
         THEN /\ log' = log \o << Event(op, component.filePath),
                                  Event("read", component.filePath),
                                  Event("llm", component.filePath) >>
              /\ error' = <<"Cloud LLM API call failed">>
              /\ pc' = "threw"
              /\ UNCHANGED written
         ELSE /\ log' = log \o << Event(op, component.filePath),
                                  Event("read", component.filePath),
                                  Event("llm", component.filePath),
                                  Event("write", testPath) >>
              /\ written' = WriteFile(written, testPath, component.filePath)
              /\ pc' = next
              /\ UNCHANGED error

\* a unit generator that never takes a test for existing
UnitSkipsNever(w, testPath, opts) == FALSE

\* if (fs.existsSync(testPath) && !options.dryRun) return
UnitSkips(w, testPath, opts) == testPath \in DOMAIN w /\ ~opts.dryRun

\* UnitTestGenerator.generate
UnitGenerate ==
  /\ pc = "unit"
  /\ LET component == targets[ci]
         testPath  == UnitTestPath(component)
     IN  IF UnitSkips(written, testPath, options)
         THEN /\ log' = Append(log, Event("unit", component.filePath))
              /\ pc' = "integration"
              /\ UNCHANGED <<written, error>>
         ELSE GenerateAndWrite("unit", component, testPath, "integration")
  /\ UNCHANGED <<appEntry, files, options, allFiles, idx, results, analysis,
                 prevAnalysis, scans, targets, ci, fnIn, fnOut>>

\* IntegrationTestGenerator.generate, then Orchestrator.run, line 66
IntegrationGenerate ==
  /\ pc = "integration"
  /\ LET component == targets[ci]
         next      == IF options.e2e THEN "e2e" ELSE NextComponent
     IN  /\ IF component.fileType # "page" /\ component.fileType # "layout"
            THEN /\ log' = Append(log, Event("integration", component.filePath))
                 /\ pc' = next
                 /\ UNCHANGED <<written, error>>
            ELSE GenerateAndWrite("integration", component,
                                  IntegrationTestPath(component), next)
         /\ ci' = IF pc' = "unit" THEN ci + 1 ELSE ci
  /\ UNCHANGED <<appEntry, files, options, allFiles, idx, results, analysis,
                 prevAnalysis, scans, targets, fnIn, fnOut>>

\* E2EGenerator.generate
E2EGenerate ==
  /\ pc = "e2e"
  /\ LET component == targets[ci]
     IN  /\ IF ~E2EApplies(component)
            THEN /\ log' = Append(log, Event("e2e", component.filePath))
                 /\ pc' = NextComponent
                 /\ UNCHANGED <<written, error>>
            ELSE GenerateAndWrite("e2e", component, E2ETestPath(component),
                                  NextComponent)
         /\ ci' = IF pc' = "unit" THEN ci + 1 ELSE ci
  /\ UNCHANGED <<appEntry, files, options, allFiles, idx, results, analysis,
                 prevAnalysis, scans, targets, fnIn, fnOut>>

\* generate command, lines 56-59: the catch block ends the process with status 1
CatchError ==
  /\ pc = "threw"
  /\ pc' = "exit1"
  /\ UNCHANGED <<appEntry, files, written, options, allFiles, idx, results, analysis,
                 prevAnalysis, scans, error, log, targets, ci, fnIn, fnOut>>

\* the content of a file of a generate run's tree
RunContents ==
  { << ExpressionStatement("\"use client\""),
       FunctionDeclaration("Page", {"export", "default"}, <<>>) >> }

RunFileData == {[content |-> c, readable |-> TRUE] : c \in RunContents}

\* the command lines: --mode, --file, --e2e, --dry-run, and the configured provider
CliOptions ==
  [mode : {"changed", "all", "file"}, file : {<<>>, <<"page">>, <<"zzz">>},
   e2e : BOOLEAN, dryRun : BOOLEAN, provider : {"local", "openai"}]

\* the test files on disk before the run
ExistingTests == {<<>>, [p \in {"tests/unit/page.test.tsx"} |-> <<>>]}

Init ==
  /\ appEntry \in {"absent", "file", "dir"}
  /\ files \in Trees(appEntry, RunFileData)
  /\ written \in ExistingTests
  /\ options \in CliOptions
  /\ pc = "cli"
  /\ allFiles = <<>>
  /\ idx = 0
  /\ results = <<>>
  /\ analysis = <<>>
  /\ prevAnalysis = <<>>
  /\ scans = 0
  /\ error = <<>>
  /\ log = <<>>
  /\ targets = <<>>
  /\ ci = 0
  /\ fnIn = <<>>
  /\ fnOut = <<>>

Next ==
  \/ GenerateCommand
  \/ Analyze
  \/ ScanComponentsGlob
  \/ ScanComponentsFile
  \/ AnalyzeReturn
  \/ RunFilter
  \/ UnitGenerate
  \/ IntegrationGenerate
  \/ E2EGenerate
  \/ CatchError

Spec == Init /\ [][Next]_vars

(***************************************************************************)
(* SpecRole: determineFileType applied to one path.                        *)
(* SpecParse: the body of the scanComponents loop applied to one content.  *)
(***************************************************************************)
ScanRoots == {"app", "components", "lib"}

DirNames ==
  {"components", "hooks", "lib", "utils", "actions", "mycomponents", "dashboard",
   "stdlib", "transactions"}

BaseNames ==
  {"page.tsx", "page.ts", "layout.tsx", "route.ts", "useActions.ts", "actions.ts",
   "Button.tsx", "pages.tsx", "format.ts", "user.ts"}

RECURSIVE DirChains(_)
\* the directory chains of at most n directories, each ending with "/"
DirChains(n) ==
  IF n = 0 THEN {""}
  ELSE DirChains(n - 1) \cup {c \o d \o "/" : c \in DirChains(n - 1), d \in DirNames}

\* the relative paths glob can return for the three scanned roots
RolePaths ==
  {r \o "/" \o c \o b : r \in ScanRoots, c \in DirChains(MaxDepth), b \in BaseNames}

ItemUniverse ==
  { ImportDeclaration("./bar"),
    ImportDeclaration("react"),
    ExportFrom("./bar"),
    ExportNamed,
    ExportAssignment,
    FunctionDeclaration("Baz", {"export"}, <<>>),
    FunctionDeclaration("Page", {"export", "default"}, <<>>),
    FunctionDeclaration("", {"export", "default"}, <<>>),
    FunctionDeclaration("helper", {}, <<FunctionDeclaration("local", {}, <<>>)>>),
    ClassDeclaration("Store", {"export"}),
    ClassDeclaration("App", {"export", "default"}),
    VariableStatement({"export"}, <<Ident("a"), Ident("b")>>),
    VariableStatement({"export"}, <<Pattern("c")>>),
    VariableStatement({}, <<Ident("hidden")>>),
    ModuleDeclaration("NS", {}, <<FunctionDeclaration("inner", {"export"}, <<>>)>>),
    ModuleDeclaration("ambient", {}, <<ImportDeclaration("./types")>>),
    ExpressionStatement("import(\"./lazy\")"),
    ExpressionStatement("\"use client\""),
    ExpressionStatement("'use client'"),
    Comment("add \"use client\" to opt in"),
    Garbage("<<<<<<< HEAD") }

RECURSIVE SeqsUpTo(_, _)
\* the sequences of at most n elements of S
SeqsUpTo(S, n) ==
  IF n = 0 THEN {<<>>}
  ELSE SeqsUpTo(S, n - 1) \cup {Append(q, x) : q \in SeqsUpTo(S, n - 1), x \in S}

ParseContents == SeqsUpTo(ItemUniverse, MaxItems)

InitFn(inputs) ==
  /\ fnIn \in inputs
  /\ fnOut = <<>>
  /\ pc = "call"
  /\ appEntry = "dir"
  /\ files = <<>>
  /\ written = <<>>
  /\ options = NoOptions
  /\ allFiles = <<>>
  /\ idx = 0
  /\ results = <<>>
  /\ analysis = <<>>
  /\ prevAnalysis = <<>>
  /\ scans = 0
  /\ error = <<>>
  /\ log = <<>>
  /\ targets = <<>>
  /\ ci = 0

InitRole == InitFn(RolePaths)

InitParse == InitFn(ParseContents)

\* this.determineFileType(file)
ClassifyPath ==
  /\ pc = "call"
  /\ fnOut' = <<determineFileType(fnIn)>>
  /\ pc' = "returned"
  /\ UNCHANGED <<appEntry, files, written, options, allFiles, idx, results, analysis,
                 prevAnalysis, scans, error, log, targets, ci, fnIn>>

\* the file a content is given to in SpecParse
ParsedFile == "app/widget.tsx"

\* scanComponents, lines 55-64, on one file's content
ParseContent ==
  /\ pc = "call"
  /\ fnOut' = <<ComponentInfo(ParsedFile, fnIn)>>
  /\ pc' = "returned"
  /\ UNCHANGED <<appEntry, files, written, options, allFiles, idx, results, analysis,
                 prevAnalysis, scans, error, log, targets, ci, fnIn>>

NextRole == ClassifyPath

NextParse == ParseContent

SpecRole == InitRole /\ [][NextRole]_vars

SpecParse == InitParse /\ [][NextParse]_vars

(***************************************************************************)
(* SpecCheck: the check command (neta check).                              *)
(***************************************************************************)
\* checkCoverage(threshold: number = 85)
DefaultThreshold == 85

\* defaults.coverageThreshold of ConfigManager.loadConfig
DefaultConfigThreshold == 85

\* the percentages a coverage report or a configuration may hold
Pcts == {70, 85, 100}

\* .neta.config.json: <<>> when there is none, else whether it parses and the
\* coverageThreshold it sets, <<>> when it sets none
ConfigFiles ==
  {<<>>} \cup {<<[parses |-> FALSE, coverageThreshold |-> <<>>]>>}
         \cup {<<[parses |-> TRUE, coverageThreshold |-> t]>> :
                  t \in {<<>>} \cup {<<n>> : n \in Pcts}}

\* coverage/coverage-summary.json after the vitest run: <<>> when there is
\* none, else the pct of each entry of summary.total
CoverageReports ==
  {<<>>} \cup {<<r>> : r \in [lines : Pcts, statements : Pcts,
                              functions : Pcts, branches : Pcts]}

\* what the check command finds: the configuration file, the exit status of
\* "npx vitest run --coverage" and the coverage report
CheckEnvironments ==
  [configFile : ConfigFiles, vitestExit : {0, 1}, report : CoverageReports]

\* ConfigManager.loadConfig: the defaults overridden by what the file sets
loadConfig(configFile) ==
  IF configFile # <<>> /\ configFile[1].parses /\ configFile[1].coverageThreshold # <<>>
  THEN [coverageThreshold |-> configFile[1].coverageThreshold[1]]
  ELSE [coverageThreshold |-> DefaultConfigThreshold]

\* TestRunner.runTests: execSync throws when the command exits with another
\* status than 0, and the catch block returns false
runTests(vitestExit) == vitestExit = 0

\* checkCoverage holding all four percentages against the threshold
checkCoverageAllFour(report, threshold) ==
  IF report = <<>>
  THEN FALSE
  ELSE /\ report[1].lines >= threshold /\ report[1].branches >= threshold
       /\ report[1].statements >= threshold /\ report[1].functions >= threshold

\* TestRunner.checkCoverage
checkCoverage(report, threshold) ==
  IF report = <<>>
  THEN FALSE
  ELSE report[1].lines >= threshold /\ report[1].branches >= threshold

\* what the check command has got back so far; the command itself keeps none
\* of these values
NoCheckResults ==
  [testsPassed |-> <<>>, threshold |-> <<>>, coveragePassed |-> <<>>, exitCode |-> <<>>]

InitCheck ==
  /\ fnIn \in CheckEnvironments
  /\ fnOut = NoCheckResults
  /\ pc = "check"
  /\ appEntry = "dir"
  /\ files = <<>>
  /\ written = <<>>
  /\ options = NoOptions
  /\ allFiles = <<>>
  /\ idx = 0
  /\ results = <<>>
  /\ analysis = <<>>
  /\ prevAnalysis = <<>>
  /\ scans = 0
  /\ error = <<>>
  /\ log = <<>>
  /\ targets = <<>>
  /\ ci = 0

\* check command, lines 65-68: the TestRunner is built; no configuration is loaded
CheckCommand ==
  /\ pc = "check"
  /\ log' = Append(log, Event("new", "TestRunner"))
  /\ pc' = "runTests"
  /\ UNCHANGED <<appEntry, files, written, options, allFiles, idx, results, analysis,
                 prevAnalysis, scans, error, targets, ci, fnIn, fnOut>>

\* check command, line 69: await runner.runTests(), its value dropped
CheckRunTests ==
  /\ pc = "runTests"
  /\ fnOut' = [fnOut EXCEPT !.testsPassed = <<runTests(fnIn.vitestExit)>>]
  /\ log' = Append(log, Event("exec", "npx vitest run --coverage"))
  /\ pc' = "checkCoverage"
  /\ UNCHANGED <<appEntry, files, written, options, allFiles, idx, results, analysis,
                 prevAnalysis, scans, error, targets, ci, fnIn>>

\* check command, line 70: await runner.checkCoverage(), called with no
\* argument, its value dropped
CheckCheckCoverage ==
  /\ pc = "checkCoverage"
  /\ fnOut' = [fnOut EXCEPT
                 !.threshold = <<DefaultThreshold>>,
                 !.coveragePassed = <<checkCoverage(fnIn.report, DefaultThreshold)>>]
  /\ log' = Append(log, Event("read", "coverage/coverage-summary.json"))
  /\ pc' = "checked"
  /\ UNCHANGED <<appEntry, files, written, options, allFiles, idx, results, analysis,
                 prevAnalysis, scans, error, targets, ci, fnIn>>

\* check command, line 71: the action returns; nothing sets process.exitCode
\* or calls process.exit, so the process ends with status 0
CheckExit ==
  /\ pc = "checked"
  /\ fnOut' = [fnOut EXCEPT !.exitCode = <<0>>]
  /\ pc' = "exited"
  /\ UNCHANGED <<appEntry, files, written, options, allFiles, idx, results, analysis,
                 prevAnalysis, scans, error, log, targets, ci, fnIn>>

NextCheck == CheckCommand \/ CheckRunTests \/ CheckCheckCoverage \/ CheckExit

SpecCheck == InitCheck /\ [][NextCheck]_vars

(***************************************************************************)
(* SpecCoverage: one call of TestRunner.checkCoverage.                     *)
(***************************************************************************)
\* the arguments of a call, <<>> for the threshold left out, and the report
\* the call finds
CoverageCalls == [threshold : {<<>>} \cup {<<t>> : t \in Pcts}, report : CoverageReports]

InitCoverage == InitFn(CoverageCalls)

\* runner.checkCoverage() or runner.checkCoverage(threshold)
CallCheckCoverage ==
  /\ pc = "call"
  /\ fnOut' = << checkCoverage(fnIn.report,
                               IF fnIn.threshold = <<>> THEN DefaultThreshold
                               ELSE fnIn.threshold[1]) >>
  /\ pc' = "returned"
  /\ UNCHANGED <<appEntry, files, written, options, allFiles, idx, results, analysis,
                 prevAnalysis, scans, error, log, targets, ci, fnIn>>

NextCoverage == CallCheckCoverage

SpecCoverage == InitCoverage /\ [][NextCoverage]_vars

(***************************************************************************)
(* SpecSetup: the init command (neta init), run up to MaxInits times.      *)
(* files holds the root's vitest.config.ts, tests and tests/setup.ts as    *)
(* path -> content; fnIn holds package.json, <<>> when it cannot be read   *)
(* or parsed; fnOut holds the npm install of the running init; and         *)
(* prevAnalysis holds the state of the disk when the running init began.   *)
(***************************************************************************)
MaxInits == 2

\* requiredDevDeps
RequiredDevDeps ==
  << "vitest", "@vitest/coverage-v8", "@testing-library/react",
     "@testing-library/user-event", "@testing-library/jest-dom", "jsdom",
     "@vitejs/plugin-react", "playwright" >>

RequiredSet == {RequiredDevDeps[i] : i \in 1..Len(RequiredDevDeps)}

\* the content ensureConfigs writes to vitest.config.ts
VitestConfigTemplate ==
  "import { defineConfig } from 'vitest/config'; ... setupFiles: ['./tests/setup.ts'] ..."

\* the content ensureConfigs writes to tests/setup.ts
SetupFileTemplate == "import '@testing-library/jest-dom';"

\* every required dependency taken for missing
MissingDepsAll(devDeps) == RequiredDevDeps

\* requiredDevDeps.filter((dep) => !devDeps[dep]): an entry counts when its
\* version is a non-empty string
MissingDeps(devDeps) ==
  SelectSeq(RequiredDevDeps,
            LAMBDA dep : ~(dep \in DOMAIN devDeps /\ devDeps[dep] # ""))

\* npm install -D <deps>, when it succeeds: each dep is saved in devDependencies
NpmInstallDev(devDeps, deps) ==
  [d \in DOMAIN devDeps \cup {deps[i] : i \in 1..Len(deps)} |->
     IF d \in DOMAIN devDeps /\ devDeps[d] # "" THEN devDeps[d] ELSE "^1.0.0"]

\* fs.writeFileSync(path, content) on the root's files
WriteRootFile(tree, path, content) ==
  [q \in DOMAIN tree \cup {path} |-> IF q = path THEN content ELSE tree[q]]

\* the package.json files of the model: unreadable, or with some of the
\* required packages, and one other, in devDependencies
PackageJsons ==
  {<<>>} \cup
  { <<[devDependencies |-> [d \in S |-> "^1.0.0"]]>> :
      S \in SUBSET (RequiredSet \cup {"typescript"}) }

\* the root before the first init: each of vitest.config.ts, tests and
\* tests/setup.ts is there, with content of the user's, or is not
RootFiles ==
  { f \in UNION { [S -> {"<directory>", "user's own content"}] :
                    S \in SUBSET {"vitest.config.ts", "tests", "tests/setup.ts"} } :
      /\ "tests/setup.ts" \in DOMAIN f => "tests" \in DOMAIN f
      /\ \A q \in DOMAIN f : (f[q] = "<directory>") <=> (q = "tests") }

\* the state of the disk that init can change
DiskState == [files |-> files, packageJson |-> fnIn]

InitSetup ==
  /\ files \in RootFiles
  /\ fnIn \in PackageJsons
  /\ fnOut = <<>>
  /\ pc = "init"
  /\ prevAnalysis = <<>>
  /\ scans = 0
  /\ appEntry = "dir"
  /\ written = <<>>
  /\ options = NoOptions
  /\ allFiles = <<>>
  /\ idx = 0
  /\ results = <<>>
  /\ analysis = <<>>
  /\ error = <<>>
  /\ log = <<>>
  /\ targets = <<>>
  /\ ci = 0

\* init command, lines 13-17: new InfraSetup(process.cwd()).run()
InitCommand ==
  /\ pc \in {"init", "initDone"}
  /\ scans < MaxInits
  /\ scans' = scans + 1
  /\ prevAnalysis' = <<[disk |-> DiskState,
                        afterSuccess |-> pc = "initDone" /\ \A i \in DOMAIN fnOut : fnOut[i].ok]>>
  /\ fnOut' = <<>>
  /\ log' = <<>>
  /\ pc' = "ensureDependencies"
  /\ UNCHANGED <<appEntry, files, written, options, allFiles, idx, results, analysis,
                 error, targets, ci, fnIn>>

\* InfraSetup.ensureDependencies: package.json that cannot be read or parsed
\* throws out of run(); a failing npm install is caught and reported only
EnsureDependencies ==
  /\ pc = "ensureDependencies"
  /\ IF fnIn = <<>>
     THEN /\ error' = <<"ENOENT: no such file or directory, open package.json">>
          /\ pc' = "threw"
          /\ UNCHANGED <<fnIn, fnOut, log>>
     ELSE LET missingDeps == MissingDeps(fnIn[1].devDependencies)
          IN  /\ pc' = "ensureConfigs"
              /\ error' = error
              /\ IF Len(missingDeps) > 0
                 THEN \E ok \in BOOLEAN :
                        /\ fnOut' = <<[ok |-> ok, deps |-> missingDeps]>>
                        /\ log' = Append(log, Event("exec", "npm install -D"))
                        /\ fnIn' = IF ok
                                   THEN <<[devDependencies |->
                                             NpmInstallDev(fnIn[1].devDependencies,
                                                           missingDeps)]>>
                                   ELSE fnIn
                 ELSE UNCHANGED <<fnIn, fnOut, log>>
  /\ UNCHANGED <<appEntry, files, written, options, allFiles, idx, results, analysis,
                 prevAnalysis, scans, targets, ci>>

\* if (!fs.existsSync(path))
ShouldCreate(tree, path) == path \notin DOMAIN tree

\* InfraSetup.ensureConfigs
EnsureConfigs ==
  /\ pc = "ensureConfigs"
  /\ LET withConfig == IF ShouldCreate(files, "vitest.config.ts")
                       THEN WriteRootFile(files, "vitest.config.ts", VitestConfigTemplate)
                       ELSE files
         withDir    == IF "tests" \notin DOMAIN withConfig
                       THEN WriteRootFile(withConfig, "tests", "<directory>")
                       ELSE withConfig
     IN  files' = IF ShouldCreate(withDir, "tests/setup.ts")
                  THEN WriteRootFile(withDir, "tests/setup.ts", SetupFileTemplate)
                  ELSE withDir
  /\ pc' = "ensureScripts"
  /\ UNCHANGED <<appEntry, written, options, allFiles, idx, results, analysis,
                 prevAnalysis, scans, error, log, targets, ci, fnIn, fnOut>>

\* InfraSetup.ensureScripts: a reminder is printed, package.json is not touched
EnsureScripts ==
  /\ pc = "ensureScripts"
  /\ log' = Append(log, Event("print", "Remember to add \"test\": \"vitest\""))
  /\ pc' = "initDone"
  /\ UNCHANGED <<appEntry, files, written, options, allFiles, idx, results, analysis,
                 prevAnalysis, scans, error, targets, ci, fnIn, fnOut>>

NextSetup == InitCommand \/ EnsureDependencies \/ EnsureConfigs \/ EnsureScripts

SpecSetup == InitSetup /\ [][NextSetup]_vars

(***************************************************************************)
(* Properties.                                                             *)
(***************************************************************************)
UnsupportedLayout == <<"Only Next.js App Router projects are supported.">>

\* the skipped-file warnings reported so far
SkipWarnings == SelectSeq(log, LAMBDA e : e.op = "warn")

\* the test files written in this run
WrittenInRun == {p \in DOMAIN written : written[p] # <<>>}

\* the records of a returned AnalysisResult that describe file f
RecordsOf(f) == SelectSeq(analysis[1].components, LAMBDA c : c.filePath = f)

\* C1: when no directory named app exists directly under the root, analyze
\* fails with the unsupported-layout error, returns no AnalysisResult and does
\* no further work: nothing is globbed, read or parsed, no generator is
\* invoked, no LLM request is made and no test file is written.
C1_NoAppDirectoryNoWork ==
  appEntry # "dir" =>
    /\ analysis = <<>>
    /\ log = <<>>
    /\ WrittenInRun = {}
    /\ pc \in {"cli", "analyze", "threw", "exit1"}
    /\ pc \in {"threw", "exit1"} => error = UnsupportedLayout

\* C2: when reading exactly one discovered file fails, the scan still
\* succeeds, has one record for each of the other discovered files and
\* reports exactly one skipped-file warning, naming that file.
C2_UnreadableFileSkipped ==
  LET unreadable == {i \in 1..Len(allFiles) : ~CanRead(files, allFiles[i])}
  IN  (pc \in {"analyzed", "threw"} /\ Cardinality(unreadable) = 1) =>
        /\ pc = "analyzed"
        /\ Len(analysis[1].components) = Len(allFiles) - 1
        /\ \A i \in 1..Len(allFiles) :
             Len(RecordsOf(allFiles[i])) = (IF i \in unreadable THEN 0 ELSE 1)
        /\ Len(SkipWarnings) = 1
        /\ \A i \in unreadable : SkipWarnings[1].arg = allFiles[i]

\* C3: in a returned AnalysisResult, a discovered file whose content does not
\* parse has no record and a warning, and every other discovered file has a
\* record.
C3_UnparsableFileExcluded ==
  pc = "analyzed" =>
    \A i \in 1..Len(allFiles) :
      LET f == allFiles[i]
      IN  IF createSourceFile(files[f].content).parseDiagnostics > 0
          THEN /\ RecordsOf(f) = <<>>
               /\ \E w \in 1..Len(SkipWarnings) : SkipWarnings[w].arg = f
          ELSE Len(RecordsOf(f)) = 1

\* the ordered rules of role classification, as [matches, role]
RoleRules(p) ==
  LET base == Segments(p)[Len(Segments(p))]
  IN  << [matches |-> StartsWith(base, "page."),   role |-> "page"],
         [matches |-> StartsWith(base, "layout."), role |-> "layout"],
         [matches |-> StartsWith(base, "route."),  role |-> "route-handler"],
         [matches |-> Includes(p, "components/"),  role |-> "component"],
         [matches |-> Includes(p, "hooks/") \/ StartsWith(base, "use"),
          role |-> "hook"],
         [matches |-> Includes(p, "lib/") \/ Includes(p, "utils/"),
          role |-> "utility"],
         [matches |-> Includes(base, "actions") \/ Includes(p, "actions/"),
          role |-> "server-action"] >>

FirstMatchRole(p) ==
  LET rules == RoleRules(p)
      hits  == {i \in 1..Len(rules) : rules[i].matches}
  IN  IF hits = {} THEN "component"
      ELSE rules[CHOOSE i \in hits : \A j \in hits : i <= j].role

\* C4: the role of a path is the role of the first rule, in the order page,
\* layout, route-handler, components/, hooks/ or use*, lib/ or utils/,
\* actions, that matches it, and component when none does; every page.ts and
\* page.tsx under app/ is a page and app/actions/useActions.ts is a hook.
C4_RoleIsFirstMatchingRule ==
  pc = "returned" =>
    /\ fnOut[1] = FirstMatchRole(fnIn)
    /\ (\E d \in DirChains(MaxDepth) : fnIn \in {"app/" \o d \o "page.ts",
                                                 "app/" \o d \o "page.tsx"})
         => fnOut[1] = "page"
    /\ fnIn = "app/actions/useActions.ts" => fnOut[1] = "hook"

C4_Witness ==
  pc = "returned" /\ fnIn = "app/actions/useActions.ts" /\ fnOut = <<"hook">>

\* the content holds the directive "use client" as a statement of its own
HasUseClientDirective(content) ==
  \E i \in 1..Len(content) :
    /\ content[i].kind = "ExpressionStatement"
    /\ content[i].raw \in {"\"use client\"", "'use client'"}

\* C5: renderMode (type) is client exactly when the file holds the directive
\* "use client", single- or double-quoted, as a standalone statement; a file
\* without that statement is server.
C5_ClientIffDirectiveStatement ==
  pc = "returned" => (fnOut[1].type = "client" <=> HasUseClientDirective(fnIn))

\* the content has a default export: export default <expression>, or a function
\* or class declared with export default
HasDefaultExport(content) ==
  \E i \in 1..Len(content) :
    \/ content[i].kind = "ExportAssignment"
    \/ /\ content[i].kind \in {"FunctionDeclaration", "ClassDeclaration"}
       /\ {"export", "default"} \subseteq content[i].modifiers

\* C6: the exports of a file with a default export, in any form, contain the
\* token "default".
C6_DefaultExportListed ==
  (pc = "returned" /\ HasDefaultExport(fnIn)) =>
    \E k \in 1..Len(fnOut[1].exports) : fnOut[1].exports[k] = "default"

RECURSIVE Flatten(_)
\* every item of a content, nested ones included, in source order
Flatten(nodes) ==
  IF nodes = <<>> THEN <<>>
  ELSE <<Head(nodes)>> \o Flatten(Head(nodes).body) \o Flatten(Tail(nodes))

\* the module specifiers of the imports and re-exports of a content, in source order
ImportAndReexportSpecifiers(content) ==
  LET edges == SelectSeq(Flatten(content),
                         LAMBDA n : /\ n.kind \in {"ImportDeclaration", "ExportDeclaration"}
                                    /\ n.moduleSpecifier # <<>>)
  IN  [i \in 1..Len(edges) |-> edges[i].moduleSpecifier[1]]

\* C7: dependencies is exactly the sequence of the module specifiers of the
\* file's import declarations and re-export declarations, in source order,
\* repeated specifiers kept.
C7_DependenciesAreImportsAndReexports ==
  pc = "returned" => fnOut[1].dependencies = ImportAndReexportSpecifiers(fnIn)

C7_Witness ==
  /\ pc = "returned"
  /\ fnIn = <<ExportFrom("./bar"), ImportDeclaration("./bar")>>
  /\ fnOut[1].dependencies = <<"./bar", "./bar">>

RECURSIVE TopLevelExportedNames(_)
\* the identifier names the exported top-level function, class and variable
\* declarations of a content declare, in source order
TopLevelExportedNames(content) ==
  IF content = <<>> THEN <<>>
  ELSE LET n == Head(content)
           names ==
             IF "export" \notin n.modifiers THEN <<>>
             ELSE IF n.kind \in {"FunctionDeclaration", "ClassDeclaration"}
             THEN (IF n.name = "" THEN <<>> ELSE <<n.name>>)
             ELSE IF n.kind = "VariableStatement"
             THEN [i \in 1..Len(SelectSeq(n.declarations, LAMBDA d : d.isIdentifier)) |->
                     SelectSeq(n.declarations, LAMBDA d : d.isIdentifier)[i].name]
             ELSE <<>>
       IN  names \o TopLevelExportedNames(Tail(content))

\* C8: apart from the token "default", exports is the sequence of the names of
\* the exported top-level function, class and variable declarations, in source
\* order, with no name of a nested declaration; import from "./bar" plus
\* exported function Baz gives dependencies ["./bar"] and exports ["Baz"].
C8_ExportsAreTopLevelDeclarations ==
  pc = "returned" =>
    /\ SelectSeq(fnOut[1].exports, LAMBDA e : e # "default") = TopLevelExportedNames(fnIn)
    /\ fnIn = <<ImportDeclaration("./bar"), FunctionDeclaration("Baz", {"export"}, <<>>)>>
         => fnOut[1].dependencies = <<"./bar">> /\ fnOut[1].exports = <<"Baz">>

\* the files of the tree that match app/**/page.{ts,tsx}, in glob order
PageFiles ==
  SelectSeq(Listing(files),
            LAMBDA p : /\ Segments(p)[1] = "app"
                       /\ Len(Segments(p)) >= 2
                       /\ Segments(p)[Len(Segments(p))] \in {"page.ts", "page.tsx"})

\* r is the directory of page file p with the leading "app" removed, "/" when
\* nothing is left
IsRouteOf(r, p) ==
  \/ r = "/" /\ p \in {"app/page.ts", "app/page.tsx"}
  \/ /\ Len(r) > 1
     /\ StartsWith(r, "/")
     /\ p \in {"app" \o r \o "/page.ts", "app" \o r \o "/page.tsx"}

\* C9: routes has one entry per file matching app/**/page.{ts,tsx}, in glob
\* order and not deduplicated; each is the file's directory without the
\* leading "app", and "/" when that is empty.
C9_RoutesOnePerPageFile ==
  pc = "analyzed" =>
    /\ Len(analysis[1].routes) = Len(PageFiles)
    /\ \A i \in 1..Len(PageFiles) : IsRouteOf(analysis[1].routes[i], PageFiles[i])

C9_Witness ==
  /\ pc = "analyzed"
  /\ DOMAIN files = {"app/page.tsx", "app/dashboard/settings/page.tsx"}
  /\ analysis[1].routes = <<"/", "/dashboard/settings">>

DiscoveredUnder(dir) ==
  SelectSeq(Listing(files),
            LAMBDA p : LET segs == Segments(p)
                       IN  /\ Len(segs) >= 2
                           /\ segs[1] = dir
                           /\ \/ EndsWith(segs[Len(segs)], ".ts")
                              \/ EndsWith(segs[Len(segs)], ".tsx")
                           /\ \A i \in 1..(Len(segs) - 1) : segs[i] # "node_modules")

Discovered ==
  LET all == DiscoveredUnder("app") \o DiscoveredUnder("components")
               \o DiscoveredUnder("lib")
  IN  {all[i] : i \in 1..Len(all)}

\* C11: after a successful scan, components holds exactly one record for each
\* discovered source file: no discovered file has two records, no record
\* describes a file that was not discovered, and no two records share a
\* filePath.
C11_OneRecordPerDiscoveredFile ==
  pc = "analyzed" =>
    LET recs == analysis[1].components
    IN  /\ \A f \in Discovered : Len(RecordsOf(f)) = 1
        /\ \A i \in 1..Len(recs) : recs[i].filePath \in Discovered
        /\ \A i, j \in 1..Len(recs) : i # j => recs[i].filePath # recs[j].filePath

C11_Witness ==
  /\ pc = "analyzed"
  /\ DOMAIN files = {"app/page.tsx", "app/page.ts"}
  /\ Len(analysis[1].components) = 2

\* the place of a root directory in the order scanComponents combines them
RootRank(p) ==
  CASE Segments(p)[1] = "app"        -> 1
    [] Segments(p)[1] = "components" -> 2
    [] OTHER                         -> 3

\* the place of path p in the order the file system lists the tree
ListingIndex(p) == CHOOSE k \in 1..Len(PathUniverse) : PathUniverse[k] = p

\* C12: the records of components are in discovery order: every record of a
\* file under app/ comes before every record of a file under components/,
\* which comes before every record of a file under lib/, and the records of
\* one subtree are in the order the glob listed their files.
C12_RecordsInDiscoveryOrder ==
  pc = "analyzed" =>
    LET recs == analysis[1].components
    IN  \A i, j \in 1..Len(recs) :
          (i < j /\ recs[i].filePath \in PathSet /\ recs[j].filePath \in PathSet) =>
            /\ RootRank(recs[i].filePath) <= RootRank(recs[j].filePath)
            /\ RootRank(recs[i].filePath) = RootRank(recs[j].filePath)
                 => ListingIndex(recs[i].filePath) < ListingIndex(recs[j].filePath)

C12_Witness ==
  /\ pc = "analyzed"
  /\ DOMAIN files = {"lib/format.ts", "components/Button.tsx"}
  /\ Len(analysis[1].components) = 2
  /\ analysis[1].components[1].filePath = "components/Button.tsx"
  /\ analysis[1].components[2].filePath = "lib/format.ts"

\* C13: analyze has no effect on the file system: no step of a scan, one
\* that returns or one that throws, changes the set of files, the content of
\* a file, the app entry or a test file.
C13_ScanLeavesFileSystem ==
  [][files' = files /\ appEntry' = appEntry /\ written' = written]_vars

C13_Witness ==
  /\ pc = "threw"
  /\ Len(results) = 1
  /\ \E e \in DOMAIN log : log[e].op = "parse"
  /\ \E p \in DOMAIN files : ~files[p].readable

\* C14: no record of components has a filePath with a node_modules
\* directory in it, at any depth below app/, components/ or lib/.
C14_NoNodeModulesRecord ==
  pc = "analyzed" =>
    \A i \in 1..Len(analysis[1].components) :
      LET segs == Segments(analysis[1].components[i].filePath)
      IN  \A k \in 1..(Len(segs) - 1) : segs[k] # "node_modules"

C14_Witness ==
  /\ pc = "analyzed"
  /\ DOMAIN files = {"app/node_modules/pkg/page.tsx", "app/page.tsx"}
  /\ Len(analysis[1].components) = 1
  /\ analysis[1].components[1].filePath = "app/page.tsx"

\* the events of the run with operation op
EventsOf(op) == SelectSeq(log, LAMBDA e : e.op = op)

\* C15: with --dry-run a generate run writes no generated test: no generator
\* creates or changes a file under tests/, whatever the component and
\* whether or not its test file exists already.
C15_DryRunWritesNothing ==
  options.dryRun => (WrittenInRun = {} /\ EventsOf("write") = <<>>)

C15_Witness ==
  /\ options.dryRun
  /\ options.e2e
  /\ pc = "done"
  /\ "tests/unit/page.test.tsx" \in DOMAIN written
  /\ EventsOf("unit") # <<>>
  /\ EventsOf("integration") # <<>>
  /\ EventsOf("e2e") # <<>>

TestDirectories == {"tests/unit", "tests/integration", "tests/e2e"}

\* C16: every file a generator writes lies in tests/unit, tests/integration
\* or tests/e2e, for every record the analyzer produced, and no source file of
\* the project is among the files written.
C16_WritesOnlyInTestDirectories ==
  /\ \A p \in WrittenInRun : Dirname(p) \in TestDirectories /\ p \notin DOMAIN files
  /\ \A i \in DOMAIN log :
       log[i].op = "write" => Dirname(log[i].arg) \in TestDirectories

C16_Witness ==
  /\ pc = "done"
  /\ options.e2e
  /\ \E u, n, e \in WrittenInRun :
       /\ Dirname(u) = "tests/unit"
       /\ Dirname(n) = "tests/integration"
       /\ Dirname(e) = "tests/e2e"
  /\ \E i \in DOMAIN targets : Len(Segments(targets[i].filePath)) > 2

\* an LLM request that failed and was not recovered from
CloudFailure == <<"Cloud LLM API call failed">>

\* C19: a failed cloud LLM request falls back to the local LLM: every request
\* is followed by the write of the text it returned, and no run ends on the
\* failure of a request.
C19_CloudFailureFallsBack ==
  /\ error # CloudFailure
  /\ \A i \in DOMAIN log :
       log[i].op = "llm" => (i < Len(log) /\ log[i + 1].op = "write")

\* the role the analyzer gave the component at path f
RoleOf(f) ==
  LET recs == SelectSeq(analysis[1].components, LAMBDA c : c.filePath = f)
  IN  IF recs = <<>> THEN "none" ELSE recs[1].fileType

\* C20: an E2E test is generated only with --e2e and only for a page: without
\* the flag the E2E generator is never invoked, and with it every file under
\* tests/e2e was written for a component whose role is page.
C20_E2EOnlyWithFlagAndForPages ==
  /\ ~options.e2e =>
       /\ EventsOf("e2e") = <<>>
       /\ \A p \in WrittenInRun : Dirname(p) # "tests/e2e"
  /\ \A p \in WrittenInRun :
       Dirname(p) = "tests/e2e" =>
         \A k \in DOMAIN written[p] : RoleOf(written[p][k]) = "page"

C20_Witness ==
  /\ pc = "done"
  /\ options.e2e
  /\ "tests/e2e/page.spec.ts" \in WrittenInRun
  /\ \E i \in DOMAIN log :
       log[i].op = "e2e" /\ RoleOf(log[i].arg) \notin {"page", "none"}

\* C17: neta check validates coverage against the configured threshold: the
\* threshold the coverage check uses is the coverageThreshold of
\* .neta.config.json, and 85 only when the configuration sets none; the
\* verdict of the check is the one that threshold gives.
C17_CheckUsesConfiguredThreshold ==
  fnOut.threshold # <<>> =>
    LET configured == loadConfig(fnIn.configFile).coverageThreshold
    IN  /\ fnOut.threshold = <<configured>>
        /\ fnOut.coveragePassed = <<checkCoverage(fnIn.report, configured)>>

\* C18: the neta check process ends with status 2 when the test run failed,
\* with 1 when the tests passed and coverage is below the threshold, and with
\* 0 when the tests passed and coverage meets it.
C18_CheckExitStatus ==
  pc = "exited" =>
    fnOut.exitCode = << IF fnOut.testsPassed = <<FALSE>> THEN 2
                        ELSE IF fnOut.coveragePassed = <<FALSE>> THEN 1
                        ELSE 0 >>

\* the disk as it was when the running init began
DiskAtStart == prevAnalysis[1].disk

\* C21: neta init only adds what is missing: a vitest.config.ts and a
\* tests/setup.ts that were there keep their content, npm install is given
\* only packages that devDependencies did not hold, and an init that follows
\* a successful init changes nothing on disk.
C21_InitOnlyAddsMissing ==
  (pc \in {"ensureConfigs", "ensureScripts", "initDone"}) =>
    /\ \A q \in {"vitest.config.ts", "tests/setup.ts"} :
         q \in DOMAIN DiskAtStart.files =>
           (q \in DOMAIN files /\ files[q] = DiskAtStart.files[q])
    /\ \A i \in DOMAIN fnOut : \A k \in DOMAIN fnOut[i].deps :
         fnOut[i].deps[k] \notin DOMAIN DiskAtStart.packageJson[1].devDependencies
    /\ prevAnalysis[1].afterSuccess =>
         (DiskState = DiskAtStart /\ fnOut = <<>>)

C21_Witness ==
  /\ pc = "initDone"
  /\ scans = 2
  /\ prevAnalysis[1].afterSuccess
  /\ files["vitest.config.ts"] = "user's own content"
  /\ files["tests/setup.ts"] = SetupFileTemplate
  /\ "typescript" \in DOMAIN fnIn[1].devDependencies
  /\ \A d \in RequiredSet : d \in DOMAIN fnIn[1].devDependencies

GeneratorOps == {"unit", "integration", "e2e"}

\* the generator calls made so far, in the order they were made
GeneratorCalls == SelectSeq(log, LAMBDA e : e.op \in GeneratorOps)

\* the components of the analysis the run works on, in analysis order
ComponentsToProcess ==
  SelectSeq(analysis[1].components,
            LAMBDA c : (options.mode = "file" /\ options.file # <<>>)
                         => Includes(c.filePath, options.file[1]))

\* the generator calls of a whole run: for each component in turn unit, then
\* integration, then e2e when it is enabled
RECURSIVE CallsInOrder(_)
CallsInOrder(components) ==
  IF components = <<>>
  THEN <<>>
  ELSE <<Event("unit", components[1].filePath),
         Event("integration", components[1].filePath)>>
       \o (IF options.e2e THEN <<Event("e2e", components[1].filePath)>> ELSE <<>>)
       \o CallsInOrder(Tail(components))

HasDirectory(p, dir) ==
  \E i \in 1..(Len(Segments(p)) - 1) : Segments(p)[i] = dir

\* C23: the path rules of role classification match whole directory names: a
\* file is a hook, a utility or a server action by its path only when one of
\* its directories is named exactly hooks, lib or utils, or actions; a
\* directory whose name only ends with such a word gives no role.
C23_PathRulesMatchWholeSegments ==
  pc = "returned" =>
    LET role     == fnOut[1]
        fileName == Basename(fnIn)
    IN  /\ role = "hook" =>
             (HasDirectory(fnIn, "hooks") \/ StartsWith(fileName, "use"))
        /\ role = "utility" =>
             (HasDirectory(fnIn, "lib") \/ HasDirectory(fnIn, "utils"))
        /\ role = "server-action" =>
             (HasDirectory(fnIn, "actions") \/ Includes(fileName, "actions"))

\* C24: within one generate run that is no dry run, no test file is written
\* more than once: the test of one component is never overwritten by the test
\* of a component processed later, for unit, integration and E2E alike.
C24_NoTestWrittenTwice ==
  ~options.dryRun => \A p \in DOMAIN written : Len(written[p]) <= 1

\* the unit test file of the component the run is at
CurrentUnitTest == "tests/unit/" \o targets[ci].name \o ".test.tsx"

ThresholdOfCall == IF fnIn.threshold = <<>> THEN 85 ELSE fnIn.threshold[1]

\* C26: checkCoverage(threshold) returns true exactly when the coverage
\* report exists and both its lines pct and its branches pct are at least
\* threshold; it returns false when there is no report; and no other
\* statements or functions pct gives another result.
C26_CheckCoverageLinesAndBranches ==
  pc = "returned" =>
    /\ fnOut[1] = TRUE <=>
         /\ fnIn.report # <<>>
         /\ fnIn.report[1].lines >= ThresholdOfCall
         /\ fnIn.report[1].branches >= ThresholdOfCall
    /\ fnIn.report = <<>> => fnOut[1] = FALSE
    /\ fnIn.report # <<>> =>
         \A s, f \in Pcts :
           checkCoverage(<<[fnIn.report[1] EXCEPT !.statements = s, !.functions = f]>>,
                         ThresholdOfCall) = fnOut[1]

C26_Witness ==
  /\ pc = "returned"
  /\ fnOut = <<TRUE>>
  /\ fnIn.threshold = <<85>>
  /\ fnIn.report # <<>>
  /\ fnIn.report[1].lines = 85
  /\ fnIn.report[1].branches = 100
  /\ fnIn.report[1].statements = 70
  /\ fnIn.report[1].functions = 70

\* C27: in file mode with a file argument, which a --file given with the
\* default mode changed switches to, generators are invoked only for
\* components whose filePath contains the argument; when no component
\* contains it no generator is invoked, no LLM request is made and the run
\* ends without an error.
C27_FileModeFilters ==
  (pc # "cli" /\ options.file # <<>>) =>
    /\ options.mode # "changed"
    /\ options.mode = "file" =>
         /\ \A i \in DOMAIN log :
              log[i].op \in GeneratorOps => Includes(log[i].arg, options.file[1])
         /\ (/\ analysis # <<>>
             /\ \A k \in DOMAIN analysis[1].components :
                  ~Includes(analysis[1].components[k].filePath, options.file[1])) =>
              /\ GeneratorCalls = <<>>
              /\ EventsOf("llm") = <<>>
              /\ error = <<>>
              /\ pc \in {"analyzed", "done"}

C27_Witness ==
  /\ pc = "done"
  /\ options.mode = "file"
  /\ options.file = <<"page">>
  /\ Len(analysis[1].components) = 2
  /\ Len(targets) = 1
  /\ Len(GeneratorCalls) >= 2

\* a file-mode run whose argument no component contains has ended
C27_WitnessNoMatch ==
  /\ pc = "done"
  /\ options.mode = "file"
  /\ options.file = <<"zzz">>
  /\ Len(analysis[1].components) = 2
  /\ log # <<>>

====
